---- MODULE Spec2Model ----
(***************************************************************************)
(* Register requirements for LOONGARCH64 (lsraloongarch64.cpp).            *)
(*                                                                         *)
(* LinearScan::BuildNode and its builders, as a state machine: one step    *)
(* builds the RefPositions of one non-contained node.  The variables hold  *)
(* the build-related members of LinearScan and what the last BuildNode     *)
(* appended and returned.                                                  *)
(*                                                                         *)
(* A RefPosition is a record [kind, node, mask, delayRegFree]:             *)
(*   kind "idef"  an internal-register def (buildInternal*DefForNode)      *)
(*        "use"   a use of an operand (BuildUse)                           *)
(*        "iuse"  an internal-register use (buildInternalRegisterUses)     *)
(*        "def"   a def of the node's result (BuildDef)                    *)
(*        "kill"  the kill set of the node (BuildKills)                    *)
(*   node  [role, contained] of the node the RefPosition is built for      *)
(*   mask  the candidates the builder passes (RBM_NONE: no restriction)    *)
(***************************************************************************)
EXTENDS Integers, Sequences, FiniteSets, TLC

VARIABLES
    tree,                      \* the node the last BuildNode was called for, as it
                               \* was when BuildNode was entered
    records,                   \* RefPositions appended by the last BuildNode, in order
    internalDefs,              \* LinearScan::internalDefs[0..internalCount): masks
    setInternalRegsDelayFree,  \* LinearScan::setInternalRegsDelayFree
    placedArgRegs,             \* LinearScan::placedArgRegs
    numPlacedArgLocals,        \* LinearScan::numPlacedArgLocals
    srcCount,                  \* value returned by the last BuildNode
    dstCount,                  \* dstCount of the last BuildNode at its end
    isLocalDefUse,             \* isLocalDefUse of the last BuildNode at its end
    status,                    \* "init", "returned", "NYI", "noway_assert", "unreached"
    compInitMem,               \* compiler->info.compInitMem
    needsGSCookie              \* compiler->getNeedsGSSecurityCookie()

vars == <<tree, records, internalDefs, setInternalRegsDelayFree, placedArgRegs,
          numPlacedArgLocals, srcCount, dstCount, isLocalDefUse, status,
          compInitMem, needsGSCookie>>

----------------------------------------------------------------------------
(* Bounds of the model                                                     *)

\* most fields of a GT_FIELD_LIST, most late args of a call
MaxFields == 2
MaxArgs == 2

\* offsets of an address mode: both sides of both ends of the simm12 range
Offsets == {-2049, -2048, 0, 2047, 2048}

\* sizes of a constant GT_LCLHEAP
LclHeapSizes == {0, 1, 48, 64, 65, 4080, 4081, 4096, 16380, 16384}

\* what compiler->eeGetPageSize() may return
PageSizes == {4096, 16384}

----------------------------------------------------------------------------
(* Target constants and register sets (targetloongarch64.h, emit.h)        *)

REGSIZE_BYTES == 8
STACK_ALIGN == 16
FP_REGSIZE_BYTES == 16
MAX_RET_REG_COUNT == 2

RBM_NONE == {}

\* integer registers the allocator may assign: allRegs(TYP_INT)
availableIntRegs == {"A0", "A1", "A2", "A3", "T0", "T1", "T2", "T6", "T7", "S0", "S1"}
availableFloatRegs == {"FA0", "FA1", "FT0", "FS0"}

RBM_INT_CALLEE_SAVED == {"S0", "S1"}
RBM_INT_CALLEE_TRASH == {"A0", "A1", "A2", "A3", "T0", "T1", "T2", "T6", "T7"}

\* the integer argument registers, in argument order
intArgRegs == <<"A0", "A1", "A2", "A3">>
RBM_FLT_CALLEE_TRASH == {"FA0", "FA1", "FT0"}
RBM_CALLEE_TRASH == RBM_INT_CALLEE_TRASH \cup RBM_FLT_CALLEE_TRASH

REG_GSCOOKIE_TMP_0 == "T0"
REG_GSCOOKIE_TMP_1 == "T1"

RBM_WRITE_BARRIER_DST_BYREF == {"T6"}
RBM_WRITE_BARRIER_SRC_BYREF == {"T7"}

RBM_INTRET == {"A0"}
RBM_LNGRET == {"A0"}
RBM_FLOATRET == {"FA0"}
RBM_EXCEPTION_OBJECT == {"A0"}
RBM_ASYNC_CONTINUATION_RET == {"A1"}

allRegs(type) == IF type = "TYP_INT" THEN availableIntRegs ELSE availableFloatRegs

genSingleTypeRegMask(reg) == {reg}

\* emitter::isValidSimm12: the value fits a signed 12-bit immediate
isValidSimm12(value) == -2048 <= value /\ value <= 2047

AlignUp(value, alignment) == ((value + alignment - 1) \div alignment) * alignment

----------------------------------------------------------------------------
(* The build context and the RefPosition builders (lsrabuild.cpp)          *)
(*                                                                         *)
(* A builder takes the context c = [recs, idefs, delayFree, srcCount,      *)
(* dstCount, placedArgRegs, numPlacedArgLocals, status] and returns it     *)
(* changed.                                                                *)

TreeRef == [role |-> "tree", contained |-> FALSE]

RefPosition(kind, node, mask, delay) ==
    [kind |-> kind, node |-> node, mask |-> mask, delayRegFree |-> delay]

BuildUse(c, operand, candidates) ==
    [c EXCEPT !.recs = Append(@, RefPosition("use", [role |-> operand.role, contained |-> operand.contained],
                                     candidates, FALSE))]

BuildDef(c, candidates) ==
    [c EXCEPT !.recs = Append(@, RefPosition("def", TreeRef, candidates, FALSE))]

BuildKills(c, killMask) ==
    [c EXCEPT !.recs = Append(@, RefPosition("kill", TreeRef, killMask, FALSE))]

buildInternalIntRegisterDefForNode(c, internalCands) ==
    [c EXCEPT !.recs = Append(@, RefPosition("idef", TreeRef, internalCands, FALSE)),
              !.idefs = Append(@, internalCands)]

buildInternalRegisterUses(c) ==
    [c EXCEPT !.recs = @ \o [i \in 1..Len(c.idefs) |->
                                RefPosition("iuse", TreeRef, c.idefs[i], c.delayFree)]]

\* clearBuildState: no pending internal register, no delay-free marker
clearBuildState(c) == [c EXCEPT !.idefs = <<>>, !.delayFree = FALSE]

\* operands
RegOperand(role) == [role |-> role, oper |-> "REG", contained |-> FALSE]
CnsOperand(role) == [role |-> role, oper |-> "GT_CNS_INT", contained |-> TRUE]
LclAddrOperand(role) == [role |-> role, oper |-> "GT_LCL_ADDR", contained |-> TRUE]
LeaOperands(role) ==
    {[role |-> role, oper |-> "GT_LEA", contained |-> TRUE,
      hasBase |-> TRUE, baseContained |-> FALSE, hasIndex |-> i, cns |-> k] :
        i \in BOOLEAN, k \in Offsets}
    \cup {[role |-> role, oper |-> "GT_LEA", contained |-> TRUE,
           hasBase |-> TRUE, baseContained |-> TRUE, hasIndex |-> FALSE, cns |-> 0]}

\* BuildAddrUses: the uses of an address; of a contained address mode, the
\* uses of its non-contained base and index
BuildAddrUses(c, addr, candidates) ==
    IF ~addr.contained
    THEN [BuildUse(c, addr, candidates) EXCEPT !.n = 1]
    ELSE IF addr.oper # "GT_LEA"
    THEN [c EXCEPT !.n = 0]
    ELSE LET base == [role |-> "base", contained |-> addr.baseContained]
             index == [role |-> "index", contained |-> FALSE]
             c1 == IF addr.hasBase /\ ~addr.baseContained
                   THEN BuildUse(c, base, candidates) ELSE c
             c2 == IF addr.hasIndex THEN BuildUse(c1, index, candidates) ELSE c1
         IN [c2 EXCEPT !.n = Len(c2.recs) - Len(c.recs)]

----------------------------------------------------------------------------
(* BuildNode                                                               *)

\* the build-related members left as the node before left them
Begin_NotCleared(t) ==
    [recs |-> <<>>, idefs |-> internalDefs, delayFree |-> setInternalRegsDelayFree,
     srcCount |-> 0,
     dstCount |-> IF t.isValue THEN 1 ELSE 0,
     isLocalDefUse |-> t.isValue /\ t.isUnusedValue,
     placedArgRegs |-> placedArgRegs,
     numPlacedArgLocals |-> numPlacedArgLocals,
     n |-> 0,
     status |-> "running"]

\* lines 45-69: the state of BuildNode when it reaches the switch
Begin(t) ==
    clearBuildState(
        [recs |-> <<>>, idefs |-> internalDefs, delayFree |-> setInternalRegsDelayFree,
         srcCount |-> 0,
         dstCount |-> IF t.isValue THEN 1 ELSE 0,
         isLocalDefUse |-> t.isValue /\ t.isUnusedValue,
         placedArgRegs |-> placedArgRegs,
         numPlacedArgLocals |-> numPlacedArgLocals,
         n |-> 0,
         status |-> "running"])

\* lines 576-585: the end of BuildNode ("running"), the return of line 84
\* ("early"), or the fatal condition that ended the pass
Return(t, c) ==
    /\ tree' = t
    /\ records' = c.recs
    /\ internalDefs' = c.idefs
    /\ setInternalRegsDelayFree' = c.delayFree
    /\ placedArgRegs' = c.placedArgRegs
    /\ numPlacedArgLocals' = c.numPlacedArgLocals
    /\ srcCount' = c.srcCount
    /\ dstCount' = c.dstCount
    /\ isLocalDefUse' = IF c.status = "running" /\ t.isUnusedValue /\ c.dstCount # 0
                        THEN TRUE ELSE c.isLocalDefUse
    /\ status' = IF c.status \in {"running", "early"} THEN "returned" ELSE c.status
    /\ UNCHANGED <<compInitMem, needsGSCookie>>

\* the pass goes on to the next node unless a fatal condition ended it
Building == status \in {"init", "returned"}

\* a node: the flags every GenTree has, and the attributes of its kind
Flags(oper, isValue, isUnusedValue) ==
    [oper |-> oper, isValue |-> isValue, isUnusedValue |-> isUnusedValue,
     isMultiReg |-> FALSE, contained |-> FALSE]

Node(flags, attrs) ==
    [f \in DOMAIN flags \cup DOMAIN attrs |->
        IF f \in DOMAIN attrs THEN attrs[f] ELSE flags[f]]

(* GT_LEA, lines 491-528 *)
LeaNodes ==
    {Node(Flags("GT_LEA", TRUE, FALSE), [hasBase |-> b, hasIndex |-> i, cns |-> k]) :
        b \in BOOLEAN, i \in BOOLEAN, k \in Offsets}

\* the two conditions tested one after the other, not as alternatives
LeaInternalRegs_Both(t, c) ==
    LET c1 == IF t.hasIndex /\ t.cns # 0
              THEN buildInternalIntRegisterDefForNode(c, RBM_NONE)
              ELSE c
    IN IF ~isValidSimm12(t.cns)
       THEN buildInternalIntRegisterDefForNode(c1, RBM_NONE)
       ELSE c1

\* lines 513-524
LeaInternalRegs(t, c) ==
    IF t.hasIndex /\ t.cns # 0
    THEN buildInternalIntRegisterDefForNode(c, RBM_NONE)
    ELSE IF ~isValidSimm12(t.cns)
    THEN buildInternalIntRegisterDefForNode(c, RBM_NONE)
    ELSE c

\* the def of the address built first
Case_LEA_DefFirst(t, c) ==
    LET c0 == BuildDef(c, RBM_NONE)
        c1 == IF t.hasBase
              THEN BuildUse([c0 EXCEPT !.srcCount = @ + 1], RegOperand("base"), RBM_NONE)
              ELSE c0
        c2 == IF t.hasIndex
              THEN BuildUse([c1 EXCEPT !.srcCount = @ + 1], RegOperand("index"), RBM_NONE)
              ELSE c1
    IN buildInternalRegisterUses(LeaInternalRegs(t, c2))

Case_LEA(t, c) ==
    LET c1 == IF t.hasBase
              THEN BuildUse([c EXCEPT !.srcCount = @ + 1], RegOperand("base"), RBM_NONE)
              ELSE c
        c2 == IF t.hasIndex
              THEN BuildUse([c1 EXCEPT !.srcCount = @ + 1], RegOperand("index"), RBM_NONE)
              ELSE c1
        c3 == LeaInternalRegs(t, c2)
    IN BuildDef(buildInternalRegisterUses(c3), RBM_NONE)

BuildNode_LEA ==
    /\ Building
    /\ \E t \in LeaNodes : Return(t, Case_LEA(t, Begin(t)))

(* operands and the uses of operands (lsrabuild.cpp) *)
Operands(role) == {RegOperand(role), CnsOperand(role)}

IndOperands(role) ==
    {[role |-> role, oper |-> "GT_IND", contained |-> TRUE, addr |-> a] :
        a \in {RegOperand("addr"), LclAddrOperand("addr")}}

\* BuildOperandUses: one use of a non-contained operand; of a contained one,
\* the uses of its non-contained leaves
BuildOperandUses(c, node, candidates) ==
    IF ~node.contained
    THEN [BuildUse(c, node, candidates) EXCEPT !.n = 1]
    ELSE IF node.oper = "GT_LEA"
    THEN BuildAddrUses(c, node, candidates)
    ELSE IF node.oper = "GT_IND"
    THEN BuildAddrUses(c, node.addr, candidates)
    ELSE [c EXCEPT !.n = 0]

\* BuildBinaryUses: the uses of op1, then of op2 if present
BuildBinaryUses(c, t) ==
    LET c1 == BuildOperandUses(c, t.op1, RBM_NONE)
        c2 == IF t.hasOp2 THEN BuildOperandUses(c1, t.op2, RBM_NONE) ELSE [c1 EXCEPT !.n = 0]
    IN [c2 EXCEPT !.n = c1.n + c2.n]

\* srcCount = <a builder that returns its count in n>
SetSrcCount(c) == [c EXCEPT !.srcCount = c.n]

(* default, lines 73-75: BuildSimple *)
SimpleNodes ==
    {Node(Flags("GT_LCL_ADDR", TRUE, u), [isLeaf |-> TRUE]) : u \in BOOLEAN}
    \cup {Node(Flags("GT_MEMORYBARRIER", FALSE, FALSE), [isLeaf |-> TRUE])}
    \cup {Node(Flags("GT_BSWAP", TRUE, u),
               [isLeaf |-> FALSE, op1 |-> a, hasOp2 |-> FALSE]) :
            u \in BOOLEAN, a \in Operands("op1")}

BuildSimple(t, c) ==
    LET c1 == IF ~t.isLeaf THEN BuildBinaryUses(c, t) ELSE [c EXCEPT !.n = 0]
        c2 == IF t.isValue THEN BuildDef(c1, RBM_NONE) ELSE c1
    IN c2

BuildNode_default ==
    /\ Building
    /\ \E t \in SimpleNodes :
          LET c == Begin(t)
          IN Return(t, SetSrcCount(BuildSimple(t, c)))

(* GT_LCL_VAR, GT_LCL_FLD, lines 77-103 *)
\* lclKind: what checkContainedOrCandidateLclVar finds of a GT_LCL_VAR
LclNodes ==
    {Node(Flags("GT_LCL_VAR", TRUE, FALSE), [lclKind |-> k, simd12 |-> s]) :
        k \in {"candidate", "contained", "stack"}, s \in BOOLEAN}
    \cup {Node(Flags("GT_LCL_FLD", TRUE, FALSE), [lclKind |-> "stack", simd12 |-> s]) :
        s \in BOOLEAN}

checkContainedOrCandidateLclVar(t) == t.lclKind # "stack"

\* lines 87-103
Case_LCL_FLD(t, c) ==
    LET c1 == [c EXCEPT !.srcCount = 0]
        c2 == IF t.simd12
              THEN buildInternalRegisterUses(
                       [buildInternalIntRegisterDefForNode(c1, RBM_NONE)
                           EXCEPT !.delayFree = TRUE])
              ELSE c1
    IN BuildDef(c2, RBM_NONE)

\* lines 77-86
Case_LCL_VAR(t, c) ==
    IF t.oper = "GT_LCL_VAR" /\ checkContainedOrCandidateLclVar(t)
    THEN [c EXCEPT !.srcCount = 0, !.status = "early"]
    ELSE Case_LCL_FLD(t, c)

BuildNode_LCL_VAR ==
    /\ Building
    /\ \E t \in LclNodes :
          Return(t, Case_LCL_VAR(t, Begin(t)))

(* GT_STORE_LCL_VAR, GT_STORE_LCL_FLD, lines 105-114 *)
StoreLclNodes ==
    {Node(Flags("GT_STORE_LCL_VAR", FALSE, FALSE),
          [isMultiReg |-> m, lvFieldCnt |-> IF m THEN n ELSE 0, op1 |-> a]) :
        m \in BOOLEAN, n \in 2..MaxFields, a \in Operands("op1")}
    \cup {Node(Flags("GT_STORE_LCL_FLD", FALSE, FALSE),
               [isMultiReg |-> FALSE, lvFieldCnt |-> 0, op1 |-> a]) :
            a \in Operands("op1")}

\* BuildStoreLoc: the uses of the value stored
BuildStoreLoc(t, c) == BuildOperandUses(c, t.op1, RBM_NONE)

BuildNode_STORE_LCL_VAR ==
    /\ Building
    /\ \E t \in StoreLclNodes :
          LET c == Begin(t)
          IN Return(t,
                 LET c1 == IF t.oper = "GT_STORE_LCL_VAR" /\ t.isMultiReg
                           THEN [c EXCEPT !.dstCount = t.lvFieldCnt]
                           ELSE c
                 IN SetSrcCount(BuildStoreLoc(t, c1)))

(* nodes that must not reach BuildNode: lines 116-121, 161-168, 211-216, 484-489 *)
UnexpectedNodes ==
    {Node(Flags(o, FALSE, FALSE), [fatal |-> "noway_assert"]) :
        o \in {"GT_FIELD_LIST", "GT_SWITCH", "GT_ARR_ELEM"}}
    \cup {Node(Flags(o, FALSE, FALSE), [fatal |-> "unreached"]) :
        o \in {"GT_BOX", "GT_COMMA", "GT_QMARK", "GT_COLON"}}

BuildNode_unexpected ==
    /\ Building
    /\ \E t \in UnexpectedNodes :
          LET c == Begin(t)
          IN Return(t,
                 [c EXCEPT !.srcCount = 0, !.status = t.fatal])

(* GT_NO_OP, GT_START_NONGC, GT_NOP, GT_JTRUE, GT_JMP: lines 123-127, 190-209 *)
NoOpNodes ==
    {Node(Flags(o, FALSE, FALSE), [type |-> "TYP_VOID"]) :
        o \in {"GT_NO_OP", "GT_START_NONGC", "GT_NOP", "GT_JTRUE", "GT_JMP"}}

BuildNode_NO_OP ==
    /\ Building
    /\ \E t \in NoOpNodes :
          LET c == Begin(t)
          IN Return(t,
                 [c EXCEPT !.srcCount = 0])

(* GT_PROF_HOOK, GT_START_PREEMPTGC, lines 129-141 *)
RBM_PROFILER_TRASH == RBM_CALLEE_TRASH \ {"A0", "FA0"}

getKillSetForProfilerHook == RBM_PROFILER_TRASH

KillNodes ==
    {Node(Flags(o, FALSE, FALSE), [type |-> "TYP_VOID"]) :
        o \in {"GT_PROF_HOOK", "GT_START_PREEMPTGC"}}

BuildNode_PROF_HOOK ==
    /\ Building
    /\ \E t \in KillNodes :
          LET c == Begin(t)
          IN Return(t,
                 IF t.oper = "GT_PROF_HOOK"
                 THEN BuildKills([c EXCEPT !.srcCount = 0], getKillSetForProfilerHook)
                 ELSE BuildKills([c EXCEPT !.srcCount = 0], RBM_NONE))

(* GT_CNS_DBL, GT_CNS_INT, lines 143-159 *)
CnsNodes ==
    {Node(Flags(o, TRUE, u), [isConstant |-> TRUE]) :
        o \in {"GT_CNS_DBL", "GT_CNS_INT"}, u \in BOOLEAN}

BuildNode_CNS ==
    /\ Building
    /\ \E t \in CnsNodes :
          LET c == Begin(t)
          IN Return(t,
                 LET c1 == IF t.oper = "GT_CNS_DBL"
                           THEN buildInternalRegisterUses(buildInternalIntRegisterDefForNode(c, RBM_NONE))
                           ELSE c
                 IN BuildDef([c1 EXCEPT !.srcCount = 0], RBM_NONE))

(* GT_RETURN, lines 170-174 *)
ReturnNodes ==
    {Node(Flags("GT_RETURN", FALSE, FALSE), [type |-> ty, profilerHook |-> p]) :
        ty \in {"TYP_VOID", "TYP_INT", "TYP_DOUBLE"}, p \in BOOLEAN}

\* BuildReturn: a use of the value returned, in the return register of its type
BuildReturn(t, c) ==
    IF t.type = "TYP_VOID"
    THEN [c EXCEPT !.n = 0]
    ELSE [BuildUse(c, RegOperand("op1"),
                   IF t.type = "TYP_DOUBLE" THEN RBM_FLOATRET ELSE RBM_INTRET)
            EXCEPT !.n = 1]

\* getKillSetForReturn: the profiler leave hook's kills when there is one
getKillSetForReturn(t) == IF t.profilerHook THEN RBM_PROFILER_TRASH ELSE RBM_NONE

BuildNode_RETURN ==
    /\ Building
    /\ \E t \in ReturnNodes :
          LET c == Begin(t)
          IN Return(t, BuildKills(SetSrcCount(BuildReturn(t, c)), getKillSetForReturn(t)))

(* GT_RETFILT, lines 176-188 *)
RetFiltNodes ==
    {Node(Flags("GT_RETFILT", FALSE, FALSE), [type |-> ty]) : ty \in {"TYP_VOID", "TYP_INT"}}

BuildNode_RETFILT ==
    /\ Building
    /\ \E t \in RetFiltNodes :
          LET c == Begin(t)
          IN Return(t,
                 IF t.type = "TYP_VOID"
                 THEN [c EXCEPT !.srcCount = 0]
                 ELSE BuildUse([c EXCEPT !.srcCount = 1], RegOperand("op1"), RBM_INTRET))

(* GT_KEEPALIVE, lines 196-199 *)
KeepAliveNodes ==
    {Node(Flags("GT_KEEPALIVE", FALSE, FALSE), [op1 |-> a]) :
        a \in Operands("op1") \cup IndOperands("op1")}

BuildNode_KEEPALIVE ==
    /\ Building
    /\ \E t \in KeepAliveNodes :
          LET c == Begin(t)
          IN Return(t, SetSrcCount(BuildOperandUses(c, t.op1, RBM_NONE)))

(* GT_JMPTABLE, GT_CATCH_ARG, GT_ASYNC_CONTINUATION: lines 218-222, 555-564 *)
DefOnlyNodes ==
    {Node(Flags(o, TRUE, FALSE), [type |-> "TYP_I_IMPL"]) :
        o \in {"GT_JMPTABLE", "GT_CATCH_ARG", "GT_ASYNC_CONTINUATION"}}

BuildNode_JMPTABLE ==
    /\ Building
    /\ \E t \in DefOnlyNodes :
          LET c == Begin(t)
          IN Return(t,
                 BuildDef([c EXCEPT !.srcCount = 0],
                          CASE t.oper = "GT_CATCH_ARG" -> RBM_EXCEPTION_OBJECT
                            [] t.oper = "GT_ASYNC_CONTINUATION" -> RBM_ASYNC_CONTINUATION_RET
                            [] OTHER -> RBM_NONE))

(* GT_SWITCH_TABLE, lines 224-228 *)
SwitchTableNodes ==
    {Node(Flags("GT_SWITCH_TABLE", FALSE, FALSE),
          [op1 |-> RegOperand("op1"), hasOp2 |-> TRUE, op2 |-> RegOperand("op2")])}

Case_SWITCH_TABLE(t, c) ==
    SetSrcCount(BuildBinaryUses(buildInternalIntRegisterDefForNode(c, RBM_NONE), t))

BuildNode_SWITCH_TABLE ==
    /\ Building
    /\ \E t \in SwitchTableNodes : Return(t, Case_SWITCH_TABLE(t, Begin(t)))

(* GT_ADD, GT_SUB, GT_AND .. GT_ROR, lines 230-261 *)
\* overflow operations aren't supported on float/double types (line 235)
BinaryNodes ==
    {n \in {Node(Flags(o, TRUE, FALSE),
                 [floating |-> f, gtOverflow |-> v,
                  op1 |-> RegOperand("op1"), hasOp2 |-> TRUE, op2 |-> b]) :
               o \in {"GT_ADD", "GT_SUB"},
               f \in BOOLEAN, v \in BOOLEAN, b \in Operands("op2")} :
        ~(n.floating /\ n.gtOverflow)}
    \cup {Node(Flags(o, TRUE, FALSE),
               [floating |-> FALSE, gtOverflow |-> FALSE,
                op1 |-> RegOperand("op1"), hasOp2 |-> TRUE, op2 |-> RegOperand("op2")]) :
            o \in {"GT_AND", "GT_AND_NOT", "GT_OR", "GT_XOR",
                   "GT_LSH", "GT_RSH", "GT_RSZ", "GT_ROR"}}

\* lines 230-247
OverflowInternalRegs(t, c) ==
    IF t.floating
    THEN c
    ELSE IF t.gtOverflow
    THEN [buildInternalIntRegisterDefForNode(c, RBM_NONE) EXCEPT !.delayFree = TRUE]
    ELSE c

\* lines 257-260
BinaryUsesAndDef(t, c) ==
    BuildDef(buildInternalRegisterUses(SetSrcCount(BuildBinaryUses(c, t))), RBM_NONE)

BuildNode_ADD ==
    /\ Building
    /\ \E t \in BinaryNodes :
          LET c == Begin(t)
          IN Return(t,
                 IF t.oper \in {"GT_ADD", "GT_SUB"}
                 THEN BinaryUsesAndDef(t, OverflowInternalRegs(t, c))
                 ELSE BinaryUsesAndDef(t, c))

(* GT_RETURNTRAP, lines 263-271 *)
\* compiler->compHelperCallKillSet
compHelperCallKillSet(helper) ==
    CASE helper = "CORINFO_HELP_STOP_FOR_GC" -> RBM_CALLEE_TRASH
      [] helper = "CORINFO_HELP_ASSIGN_BYREF" ->
             {"T0", "T1"} \cup RBM_WRITE_BARRIER_DST_BYREF \cup RBM_WRITE_BARRIER_SRC_BYREF
      [] helper = "CORINFO_HELP_ASSIGN_REF" -> {"T0", "T1"}
      [] OTHER -> RBM_CALLEE_TRASH

ReturnTrapNodes == {Node(Flags("GT_RETURNTRAP", FALSE, FALSE), [type |-> "TYP_VOID"])}

BuildNode_RETURNTRAP ==
    /\ Building
    /\ \E t \in ReturnTrapNodes :
          LET c == Begin(t)
          IN Return(t,
                 BuildKills([BuildUse(c, RegOperand("op1"), RBM_NONE) EXCEPT !.srcCount = 1],
                            compHelperCallKillSet("CORINFO_HELP_STOP_FOR_GC")))

(* GT_MUL, GT_MOD .. GT_UDIV, lines 273-293 *)
MulNodes ==
    {Node(Flags("GT_MUL", TRUE, FALSE),
          [gtOverflow |-> v, op1 |-> RegOperand("op1"), hasOp2 |-> TRUE, op2 |-> b]) :
        v \in BOOLEAN, b \in Operands("op2")}
    \cup {Node(Flags(o, TRUE, FALSE),
               [gtOverflow |-> FALSE, op1 |-> RegOperand("op1"), hasOp2 |-> TRUE,
                op2 |-> RegOperand("op2")]) :
            o \in {"GT_MOD", "GT_UMOD", "GT_DIV", "GT_MULHI", "GT_UDIV"}}

\* the internal register requested without the delay-free marker
MulOverflowInternalRegs_NotDelayFree(t, c) ==
    IF t.gtOverflow THEN buildInternalIntRegisterDefForNode(c, RBM_NONE) ELSE c

\* lines 273-280
MulOverflowInternalRegs(t, c) ==
    IF t.gtOverflow
    THEN [buildInternalIntRegisterDefForNode(c, RBM_NONE) EXCEPT !.delayFree = TRUE]
    ELSE c

BuildNode_MUL ==
    /\ Building
    /\ \E t \in MulNodes :
          LET c == Begin(t)
          IN Return(t,
                 IF t.oper = "GT_MUL"
                 THEN BinaryUsesAndDef(t, MulOverflowInternalRegs(t, c))
                 ELSE BinaryUsesAndDef(t, c))

(* GT_INTRINSIC, GT_NEG, GT_NOT: lines 295-313, 326-332 *)
UnaryNodes ==
    {Node(Flags(o, TRUE, u), [op1 |-> RegOperand("op1")]) :
        o \in {"GT_INTRINSIC", "GT_NEG", "GT_NOT"}, u \in BOOLEAN}

BuildNode_NEG ==
    /\ Building
    /\ \E t \in UnaryNodes :
          LET c == Begin(t)
          IN Return(t,
                 BuildDef([BuildUse(c, t.op1, RBM_NONE) EXCEPT !.srcCount = 1], RBM_NONE))

(* GT_HWINTRINSIC, GT_CMPXCHG, GT_LOCKADD .. GT_XCHG: lines 315-319, 353-367, 599-603 *)
NYI_LOONGARCH64(c) == [c EXCEPT !.status = "NYI"]

BuildHWIntrinsic(t, c) == NYI_LOONGARCH64(c)

\* GT_HWINTRINSIC is a case of the builds with FEATURE_HW_INTRINSICS
NyiNodes ==
    {Node(Flags(o, o # "GT_LOCKADD", FALSE), [op1 |-> RegOperand("op1")]) :
        o \in {"GT_HWINTRINSIC", "GT_CMPXCHG", "GT_LOCKADD", "GT_XORR", "GT_XAND",
               "GT_XADD", "GT_XCHG"}}

\* the cases of GT_LOCKADD .. GT_XCHG built as unary operations
Case_NYI_OnlyCmpXchg(t, c) ==
    IF t.oper \in {"GT_HWINTRINSIC", "GT_CMPXCHG"}
    THEN NYI_LOONGARCH64(c)
    ELSE BuildDef([BuildUse(c, t.op1, RBM_NONE) EXCEPT !.srcCount = 1], RBM_NONE)

Case_NYI(t, c) ==
    IF t.oper = "GT_HWINTRINSIC"
    THEN BuildHWIntrinsic(t, c)
    ELSE NYI_LOONGARCH64(c)

BuildNode_NYI ==
    /\ Building
    /\ \E t \in NyiNodes : Return(t, Case_NYI(t, Begin(t)))

(* GT_CAST, lines 321-324, 1051-1057 *)
CastNodes ==
    {Node(Flags("GT_CAST", TRUE, u), [op1 |-> a]) :
        u \in BOOLEAN, a \in {RegOperand("op1")} \cup IndOperands("op1")}

BuildCast(t, c) ==
    LET c1 == BuildOperandUses(c, t.op1, RBM_NONE)
    IN [BuildDef(c1, RBM_NONE) EXCEPT !.n = c1.n]

BuildNode_CAST ==
    /\ Building
    /\ \E t \in CastNodes :
          LET c == Begin(t)
          IN Return(t, SetSrcCount(BuildCast(t, c)))

(* GT_EQ .. GT_GT, GT_JCMP, lines 334-342 *)
CmpNodes ==
    {Node(Flags(o, TRUE, FALSE),
          [op1 |-> RegOperand("op1"), hasOp2 |-> TRUE, op2 |-> RegOperand("op2")]) :
        o \in {"GT_EQ", "GT_NE", "GT_LT", "GT_LE", "GT_GE", "GT_GT"}}
    \cup {Node(Flags("GT_JCMP", FALSE, FALSE),
               [op1 |-> RegOperand("op1"), hasOp2 |-> TRUE, op2 |-> b]) :
            b \in Operands("op2")}

\* BuildCmp: the uses of the comparands, and a def when the node has a value
BuildCmp(t, c) ==
    LET c1 == BuildBinaryUses(c, t)
    IN IF t.isValue THEN [BuildDef(c1, RBM_NONE) EXCEPT !.n = c1.n] ELSE c1

BuildNode_CMP ==
    /\ Building
    /\ \E t \in CmpNodes :
          LET c == Begin(t)
          IN Return(t, SetSrcCount(BuildCmp(t, c)))

(* GT_CKFINITE, lines 344-351 *)
CkFiniteNodes ==
    {Node(Flags("GT_CKFINITE", TRUE, u), [op1 |-> RegOperand("op1")]) : u \in BOOLEAN}

Case_CKFINITE(t, c) ==
    LET c1 == buildInternalIntRegisterDefForNode([c EXCEPT !.srcCount = 1], RBM_NONE)
        c2 == BuildUse(c1, t.op1, RBM_NONE)
        c3 == BuildDef(c2, RBM_NONE)
    IN buildInternalRegisterUses(c3)

BuildNode_CKFINITE ==
    /\ Building
    /\ \E t \in CkFiniteNodes : Return(t, Case_CKFINITE(t, Begin(t)))

(* GT_BOUNDS_CHECK, lines 474-482 *)
BoundsChkNodes ==
    {Node(Flags("GT_BOUNDS_CHECK", FALSE, FALSE), [index |-> i, arrLen |-> a]) :
        i \in Operands("index"), a \in Operands("arrLen")}

BuildNode_BOUNDS_CHECK ==
    /\ Building
    /\ \E t \in BoundsChkNodes :
          LET c == Begin(t)
          IN Return(t,
                 LET c1 == SetSrcCount(BuildOperandUses(c, t.index, RBM_NONE))
                     c2 == BuildOperandUses(c1, t.arrLen, RBM_NONE)
                 IN [c2 EXCEPT !.srcCount = @ + c2.n])

(* GT_INDEX_ADDR, lines 566-572 *)
IndexAddrNodes ==
    {Node(Flags("GT_INDEX_ADDR", TRUE, FALSE),
          [op1 |-> RegOperand("op1"), hasOp2 |-> TRUE, op2 |-> b]) :
        b \in Operands("op2")}

Case_INDEX_ADDR(t, c) ==
    LET c1 == SetSrcCount(BuildBinaryUses(c, t))
        c2 == buildInternalIntRegisterDefForNode(c1, RBM_NONE)
    IN BuildDef(buildInternalRegisterUses(c2), RBM_NONE)

BuildNode_INDEX_ADDR ==
    /\ Building
    /\ \E t \in IndexAddrNodes : Return(t, Case_INDEX_ADDR(t, Begin(t)))

(* GT_LCLHEAP, lines 401-472 *)
\* a constant size is contained (line 420); Lowering contains no other size
LclHeapNodes ==
    {Node(Flags("GT_LCLHEAP", TRUE, FALSE),
          [size |-> CnsOperand("size"), IsCnsIntOrI |-> TRUE, gtIconVal |-> v,
           eeGetPageSize |-> p]) :
        v \in LclHeapSizes, p \in PageSizes}
    \cup {Node(Flags("GT_LCLHEAP", TRUE, FALSE),
               [size |-> RegOperand("size"), IsCnsIntOrI |-> FALSE, gtIconVal |-> 0,
                eeGetPageSize |-> p]) :
            p \in PageSizes}

\* a size of exactly one page taken for less than a page
LclHeapConstInternalRegs_PageIncluded(t, c) ==
    LET sizeVal == AlignUp(t.gtIconVal, STACK_ALIGN)
    IN IF sizeVal <= REGSIZE_BYTES * 2 * 4
       THEN c
       ELSE IF ~compInitMem /\ sizeVal > t.eeGetPageSize
       THEN buildInternalIntRegisterDefForNode(
                buildInternalIntRegisterDefForNode(c, RBM_NONE), RBM_NONE)
       ELSE c

\* lines 425-453: a constant size that is not 0
LclHeapConstInternalRegs(t, c) ==
    LET sizeVal == AlignUp(t.gtIconVal, STACK_ALIGN)
    IN IF sizeVal <= REGSIZE_BYTES * 2 * 4
       THEN c
       ELSE IF ~compInitMem
       THEN IF sizeVal < t.eeGetPageSize
            THEN c
            ELSE buildInternalIntRegisterDefForNode(
                     buildInternalIntRegisterDefForNode(c, RBM_NONE), RBM_NONE)
       ELSE c

\* lines 417-463
LclHeapInternalRegs(t, c) ==
    IF t.IsCnsIntOrI
    THEN IF t.gtIconVal # 0
         THEN LclHeapConstInternalRegs(t, [c EXCEPT !.srcCount = 0])
         ELSE [c EXCEPT !.srcCount = 0]
    ELSE IF ~compInitMem
    THEN buildInternalIntRegisterDefForNode(
             buildInternalIntRegisterDefForNode([c EXCEPT !.srcCount = 1], RBM_NONE),
             RBM_NONE)
    ELSE [c EXCEPT !.srcCount = 1]

\* a use of the size whether it is contained or not
LclHeapSizeUse_Always(t, c) == BuildUse(c, t.size, RBM_NONE)

\* lines 465-468
LclHeapSizeUse(t, c) ==
    IF ~t.size.contained THEN BuildUse(c, t.size, RBM_NONE) ELSE c

Case_LCLHEAP(t, c) ==
    BuildDef(buildInternalRegisterUses(LclHeapSizeUse(t, LclHeapInternalRegs(t, c))),
             RBM_NONE)

BuildNode_LCLHEAP ==
    /\ Building
    /\ \E t \in LclHeapNodes : Return(t, Case_LCLHEAP(t, Begin(t)))

(* BuildIndir, lines 616-669 *)
\* lines 626-647
IndirLeaInternalRegs(t, c) ==
    IF t.addr.contained
    THEN IF t.addr.oper = "GT_LEA"
         THEN IF t.addr.hasIndex /\ t.addr.cns # 0
              THEN buildInternalIntRegisterDefForNode(c, RBM_NONE)
              ELSE IF ~isValidSimm12(t.addr.cns)
              THEN buildInternalIntRegisterDefForNode(c, RBM_NONE)
              ELSE c
         ELSE c
    ELSE c

\* lines 649-659
IndirSimd12InternalRegs(t, c) ==
    IF t.simd12 THEN buildInternalIntRegisterDefForNode(c, RBM_NONE) ELSE c

\* BuildIndirUses: the uses of the address of the indirection
BuildIndirUses(c, t, candidates) == BuildAddrUses(c, t.addr, candidates)

\* no def for a load
BuildIndir_NoDef(t, c) ==
    buildInternalRegisterUses(
        BuildIndirUses(IndirSimd12InternalRegs(t, IndirLeaInternalRegs(t, c)), t, RBM_NONE))

BuildIndir(t, c) ==
    LET c1 == IndirSimd12InternalRegs(t, IndirLeaInternalRegs(t, c))
        c2 == BuildIndirUses(c1, t, RBM_NONE)
        c3 == buildInternalRegisterUses(c2)
    IN IF t.oper \notin {"GT_STOREIND", "GT_NULLCHECK"} THEN BuildDef(c3, RBM_NONE) ELSE c3

(* GT_NULLCHECK, GT_IND, lines 549-553 *)
\* the address of a TYP_SIMD12 indirection is not contained (line 653)
IndNodes ==
    {Node(Flags("GT_IND", TRUE, FALSE), [addr |-> a, simd12 |-> FALSE]) :
        a \in {RegOperand("addr"), LclAddrOperand("addr")} \cup LeaOperands("addr")}
    \cup {Node(Flags("GT_IND", TRUE, FALSE), [addr |-> RegOperand("addr"), simd12 |-> TRUE])}
    \cup {Node(Flags("GT_NULLCHECK", FALSE, FALSE), [addr |-> a, simd12 |-> FALSE]) :
            a \in {RegOperand("addr")}
                  \cup {l \in LeaOperands("addr") : l.cns = 2048 /\ l.hasIndex}}

BuildNode_IND ==
    /\ Building
    /\ \E t \in IndNodes :
          LET c == Begin(t)
          IN Return(t, SetSrcCount(BuildIndir(t, c)))

(* GT_STOREIND, lines 530-547 *)
RBM_WRITE_BARRIER_DST == {"T6"}
RBM_WRITE_BARRIER_SRC == {"T7"}

StoreIndNodes ==
    {Node(Flags("GT_STOREIND", FALSE, FALSE),
          [addr |-> a, simd12 |-> FALSE, op2 |-> v, isWriteBarrier |-> FALSE]) :
        a \in {RegOperand("addr")}
              \cup {l \in LeaOperands("addr") : l.cns \in {0, -2049} /\ ~l.baseContained},
        v \in Operands("op2")}
    \cup {Node(Flags("GT_STOREIND", FALSE, FALSE),
               [addr |-> RegOperand("addr"), simd12 |-> s, op2 |-> RegOperand("op2"),
                isWriteBarrier |-> w]) :
            s \in BOOLEAN, w \in BOOLEAN}

\* gcInfo.gcIsWriteBarrierStoreIndNode
gcIsWriteBarrierStoreIndNode(t) == t.isWriteBarrier

\* BuildGCWriteBarrier: the address and the value in the registers of the write
\* barrier, and the kills of its helper
BuildGCWriteBarrier(t, c) ==
    LET c1 == BuildUse(c, t.addr, RBM_WRITE_BARRIER_DST)
        c2 == BuildUse(c1, t.op2, RBM_WRITE_BARRIER_SRC)
    IN [BuildKills(c2, compHelperCallKillSet("CORINFO_HELP_ASSIGN_REF")) EXCEPT !.n = 2]

\* the use of the value not counted
StoreIndValueUse_NotCounted(t, c) ==
    IF ~t.op2.contained THEN BuildUse(c, t.op2, RBM_NONE) ELSE c

\* lines 541-545
StoreIndValueUse(t, c) ==
    IF ~t.op2.contained
    THEN [BuildUse(c, t.op2, RBM_NONE) EXCEPT !.srcCount = @ + 1]
    ELSE c

Case_STOREIND(t, c) ==
    IF gcIsWriteBarrierStoreIndNode(t)
    THEN SetSrcCount(BuildGCWriteBarrier(t, c))
    ELSE StoreIndValueUse(t, SetSrcCount(BuildIndir(t, c)))

BuildNode_STOREIND ==
    /\ Building
    /\ \E t \in StoreIndNodes : Return(t, Case_STOREIND(t, Begin(t)))

(* GT_PUTARG_STK, lines 369-371, 829-891 *)
PutArgStkNodes ==
    {Node(Flags("GT_PUTARG_STK", FALSE, FALSE),
          [op1 |-> [role |-> "op1", oper |-> "GT_FIELD_LIST", contained |-> TRUE,
                    isStruct |-> TRUE, fields |-> n]]) :
        n \in 1..MaxFields}
    \cup {Node(Flags("GT_PUTARG_STK", FALSE, FALSE),
               [op1 |-> [role |-> "op1", oper |-> "GT_BLK", contained |-> TRUE,
                         isStruct |-> TRUE, addr |-> a]]) :
            a \in {LclAddrOperand("addr"), RegOperand("addr")}
                  \cup {l \in LeaOperands("addr") : l.cns = 0}}
    \cup {Node(Flags("GT_PUTARG_STK", FALSE, FALSE),
               [op1 |-> [role |-> "op1", oper |-> "GT_LCL_VAR", contained |-> TRUE,
                         isStruct |-> TRUE]])}
    \cup {Node(Flags("GT_PUTARG_STK", FALSE, FALSE),
               [op1 |-> [role |-> "op1", oper |-> "REG", contained |-> FALSE,
                         isStruct |-> FALSE]])}

RECURSIVE BuildFieldUses(_, _)
\* lines 846-850: one use for each field of the list
BuildFieldUses(c, n) ==
    IF n = 0
    THEN c
    ELSE BuildFieldUses(
             [BuildUse(c, RegOperand("field"), RBM_NONE) EXCEPT !.n = @ + 1], n - 1)

\* one internal register for the ld/st sequence, and the address of the
\* GT_BLK used whatever it is
PutArgStkStruct_OneInternal(t, c) ==
    LET c1 == buildInternalIntRegisterDefForNode(c, RBM_NONE)
    IN IF t.op1.oper = "GT_BLK"
       THEN BuildOperandUses(c1, t.op1.addr, RBM_NONE)
       ELSE c1

\* lines 852-882: a struct that is not a field list
PutArgStkStruct(t, c) ==
    LET c1 == buildInternalIntRegisterDefForNode(
                  buildInternalIntRegisterDefForNode(c, RBM_NONE), RBM_NONE)
    IN IF t.op1.oper = "GT_BLK"
       THEN IF t.op1.addr.oper = "GT_LCL_ADDR"
            THEN c1
            ELSE BuildOperandUses(c1, t.op1.addr, RBM_NONE)
       ELSE c1

BuildPutArgStk(t, c) ==
    LET c0 == [c EXCEPT !.n = 0]
        c1 == IF t.op1.isStruct \/ t.op1.oper = "GT_FIELD_LIST"
              THEN IF t.op1.oper = "GT_FIELD_LIST"
                   THEN BuildFieldUses(c0, t.op1.fields)
                   ELSE PutArgStkStruct(t, c0)
              ELSE BuildOperandUses(c0, t.op1, RBM_NONE)
    IN buildInternalRegisterUses(c1)

BuildNode_PUTARG_STK ==
    /\ Building
    /\ \E t \in PutArgStkNodes :
          LET c == Begin(t)
          IN Return(t, SetSrcCount(BuildPutArgStk(t, c)))

(* GT_PUTARG_REG, lines 373-375 *)
\* most pass-through locals recorded between two calls
MaxPlacedArgLocals == 1

PutArgRegNodes ==
    {Node(Flags("GT_PUTARG_REG", TRUE, FALSE),
          [op1 |-> RegOperand("op1"), argReg |-> r, isSpecialPutArg |-> p]) :
        r \in {"A0"}, p \in BOOLEAN}

\* BuildPutArgReg: the operand and the result in the argument register, which
\* is recorded as placed
BuildPutArgReg(t, c) ==
    LET argMask == genSingleTypeRegMask(t.argReg)
        c1 == BuildUse(c, t.op1, argMask)
        c2 == [c1 EXCEPT !.placedArgRegs = @ \cup argMask,
                         !.numPlacedArgLocals = IF t.isSpecialPutArg THEN @ + 1 ELSE @]
    IN [BuildDef(c2, argMask) EXCEPT !.n = 1]

BuildNode_PUTARG_REG ==
    /\ Building
    /\ \E t \in PutArgRegNodes :
          /\ t.isSpecialPutArg => numPlacedArgLocals < MaxPlacedArgLocals
          /\ LET c == Begin(t)
             IN Return(t, SetSrcCount(BuildPutArgReg(t, c)))

(* GT_CALL, lines 377-383, 680-815 *)
\* a CT_INDIRECT call has gtCallAddr and no gtControlExpr (lines 709-710)
CallTargets ==
    {[gtCallType |-> "CT_USER_FUNC", gtControlExpr |-> FALSE],
     [gtCallType |-> "CT_USER_FUNC", gtControlExpr |-> TRUE],
     [gtCallType |-> "CT_INDIRECT", gtControlExpr |-> FALSE]}

CallNode(type, retRegTypes, target, fastTail, r2r, nArgs) ==
    Node([Flags("GT_CALL", type # "TYP_VOID", FALSE) EXCEPT !.isMultiReg = (type = "TYP_STRUCT")],
         [type |-> type, retRegTypes |-> retRegTypes,
          gtCallType |-> target.gtCallType, gtControlExpr |-> target.gtControlExpr,
          IsFastTailCall |-> fastTail, IsR2ROrVirtualStubRelativeIndir |-> r2r,
          nArgs |-> nArgs])

\* the register types of the slots of a multi-register return
CallNodes ==
    {CallNode(ty, <<>>, [gtCallType |-> "CT_USER_FUNC", gtControlExpr |-> FALSE],
              FALSE, FALSE, n) :
        ty \in {"TYP_VOID", "TYP_INT", "TYP_LONG", "TYP_DOUBLE"}, n \in {0, MaxArgs}}
    \cup {CallNode("TYP_STRUCT", r, [gtCallType |-> "CT_USER_FUNC", gtControlExpr |-> FALSE],
                   FALSE, FALSE, n) :
            r \in [1..MAX_RET_REG_COUNT -> {"int", "float"}], n \in {0, MaxArgs}}
    \cup {CallNode(ty, <<>>, tg, f, r, 1) :
            ty \in {"TYP_VOID", "TYP_INT"}, tg \in CallTargets,
            f \in BOOLEAN, r \in BOOLEAN}
    \cup {CallNode("TYP_STRUCT", <<"int", "int">>, tg, TRUE, TRUE, 1) : tg \in CallTargets}

HasMultiRegRetVal(t) == t.type = "TYP_STRUCT"

\* ReturnTypeDesc::GetReturnRegCount
GetReturnRegCount(t) == Len(t.retRegTypes)

\* ReturnTypeDesc::GetABIReturnReg: the ABI return register of slot idx
GetABIReturnReg(t, idx) ==
    IF idx = 1
    THEN IF t.retRegTypes[1] = "int" THEN "A0" ELSE "FA0"
    ELSE IF t.retRegTypes[2] = "int"
         THEN IF t.retRegTypes[1] = "int" THEN "A1" ELSE "A0"
         ELSE IF t.retRegTypes[1] = "float" THEN "FA1" ELSE "FA0"

\* ReturnTypeDesc::GetABIReturnRegs
GetABIReturnRegs(t) == {GetABIReturnReg(t, i) : i \in 1..GetReturnRegCount(t)}

\* getKillSetForCall: the registers a callee may trash
getKillSetForCall(t) == RBM_CALLEE_TRASH

RECURSIVE BuildCallArgUsesFrom(_, _, _)
BuildCallArgUsesFrom(c, i, nArgs) ==
    IF i > nArgs
    THEN c
    ELSE BuildCallArgUsesFrom(
             [BuildUse(c, RegOperand("arg"), genSingleTypeRegMask(intArgRegs[i]))
                 EXCEPT !.n = @ + 1],
             i + 1, nArgs)

\* BuildCallArgUses: a use of each late arg, in its argument register
BuildCallArgUses(c, t) == BuildCallArgUsesFrom([c EXCEPT !.n = 0], 1, t.nArgs)

\* BuildDefWithKills: the def of the result and the kills of the call
BuildDefWithKills(c, dstCandidates, killMask) ==
    BuildKills(BuildDef(c, dstCandidates), killMask)

RECURSIVE BuildCallDefs(_, _, _, _)
\* BuildCallDefs: the def of slot i, in the ABI return register of the slot
BuildCallDefs(c, t, i, count) ==
    IF i > count
    THEN c
    ELSE BuildCallDefs(BuildDef(c, genSingleTypeRegMask(GetABIReturnReg(t, i))),
                       t, i + 1, count)

\* BuildCallDefsWithKills: a def for each return register, and the kills of
\* the call but for the return registers
BuildCallDefsWithKills(c, t, count, dstCandidates, killMask) ==
    BuildKills(BuildCallDefs(c, t, 1, count), killMask \ dstCandidates)

\* lines 686-701: dstCount of BuildCall
CallDstCount(t) ==
    IF t.type # "TYP_VOID"
    THEN IF HasMultiRegRetVal(t) THEN GetReturnRegCount(t) ELSE 1
    ELSE 0

\* lines 703-712: ctrlExpr != nullptr
HasCtrlExpr(t) == t.gtControlExpr \/ t.gtCallType = "CT_INDIRECT"

GSCookieTmpRegs ==
    genSingleTypeRegMask(REG_GSCOOKIE_TMP_0) \cup genSingleTypeRegMask(REG_GSCOOKIE_TMP_1)

\* the GS cookie temporaries left in
CtrlExprCandidates_WithCookieTmps(t) ==
    IF HasCtrlExpr(t) /\ t.IsFastTailCall
    THEN allRegs("TYP_INT") \cap RBM_INT_CALLEE_TRASH
    ELSE RBM_NONE

\* lines 704, 715-734, 745-746: ctrlExprCandidates
CtrlExprCandidates(t) ==
    IF HasCtrlExpr(t)
    THEN IF t.IsFastTailCall
         THEN IF needsGSCookie
              THEN (allRegs("TYP_INT") \cap RBM_INT_CALLEE_TRASH) \ GSCookieTmpRegs
              ELSE allRegs("TYP_INT") \cap RBM_INT_CALLEE_TRASH
         ELSE RBM_NONE
    ELSE IF t.IsR2ROrVirtualStubRelativeIndir /\ t.IsFastTailCall /\ needsGSCookie
    THEN RBM_NONE \ GSCookieTmpRegs
    ELSE RBM_NONE

\* lines 739-749: candidates of the register that receives the call address
R2RCandidates(t) ==
    IF t.IsFastTailCall
    THEN allRegs("TYP_INT") \cap RBM_INT_CALLEE_TRASH
    ELSE RBM_NONE

\* lines 735-752
CallInternalRegs(t, c) ==
    IF ~HasCtrlExpr(t) /\ t.IsR2ROrVirtualStubRelativeIndir
    THEN buildInternalIntRegisterDefForNode(c, R2RCandidates(t))
    ELSE c

\* lines 758-772
SingleDstCandidates(t) ==
    IF ~HasMultiRegRetVal(t)
    THEN IF t.type = "TYP_DOUBLE"
         THEN RBM_FLOATRET
         ELSE IF t.type = "TYP_LONG" THEN RBM_LNGRET ELSE RBM_INTRET
    ELSE RBM_NONE

\* lines 774-780
CallUses(t, c) ==
    LET c1 == BuildCallArgUses(c, t)
        c2 == [c1 EXCEPT !.n = c.n + c1.n]
    IN IF HasCtrlExpr(t)
       THEN [BuildUse(c2, RegOperand("ctrlExpr"), CtrlExprCandidates(t)) EXCEPT !.n = @ + 1]
       ELSE c2

\* lines 790-809
CallDefsAndKills(t, c) ==
    LET killMask == getKillSetForCall(t)
    IN IF CallDstCount(t) > 0
       THEN IF HasMultiRegRetVal(t)
            THEN BuildCallDefsWithKills(c, t, CallDstCount(t), GetABIReturnRegs(t), killMask)
            ELSE BuildDefWithKills(c, SingleDstCandidates(t), killMask)
       ELSE BuildKills(c, killMask)

\* the count of the pass-through locals left as it was
ResetPlacedArgs_RegsOnly(c) == [c EXCEPT !.placedArgRegs = RBM_NONE]

\* lines 811-813
ResetPlacedArgs(c) == [c EXCEPT !.placedArgRegs = RBM_NONE, !.numPlacedArgLocals = 0]

BuildCall(t, c) ==
    LET c1 == CallInternalRegs(t, [c EXCEPT !.n = 0])
        c2 == CallUses(t, c1)
        c3 == buildInternalRegisterUses(c2)
    IN ResetPlacedArgs(CallDefsAndKills(t, c3))

\* dstCount left as BuildNode set it
Case_CALL_DefaultDstCount(t, c) == SetSrcCount(BuildCall(t, c))

\* lines 377-383
Case_CALL(t, c) ==
    LET c1 == SetSrcCount(BuildCall(t, c))
    IN IF HasMultiRegRetVal(t)
       THEN [c1 EXCEPT !.dstCount = GetReturnRegCount(t)]
       ELSE c1

BuildNode_CALL ==
    /\ Building
    /\ \E t \in CallNodes : Return(t, Case_CALL(t, Begin(t)))

(* GT_STORE_BLK, lines 391-393, 902-1040 *)
NoNode == [role |-> "none", oper |-> "NONE", contained |-> FALSE]

BlkAddrs(role) ==
    {RegOperand(role), LclAddrOperand(role)}
    \cup {l \in LeaOperands(role) : l.cns = 0 /\ ~l.hasIndex}

StoreBlkNode(isInit, kind, dstAddr, src, size) ==
    Node(Flags("GT_STORE_BLK", FALSE, FALSE),
         [OperIsInitBlkOp |-> isInit, gtBlkOpKind |-> kind, dstAddr |-> dstAddr,
          src |-> src, size |-> size])

IndOf(addr) == [role |-> "src", oper |-> "GT_IND", contained |-> TRUE, addr |-> addr]
LclVarSrc == [role |-> "src", oper |-> "GT_LCL_VAR", contained |-> TRUE]

\* the addresses of a BlkOpKindCpObjUnroll copy are in registers: codegen moves
\* them to the write barrier registers (line 990 asserts it of the source)
StoreBlkNodes ==
    {StoreBlkNode(TRUE, "BlkOpKindUnroll", d, CnsOperand("srcAddrOrFill"), REGSIZE_BYTES) :
        d \in BlkAddrs("dstAddr")}
    \cup {StoreBlkNode(TRUE, "BlkOpKindUnroll", LclAddrOperand("dstAddr"), f, z) :
            f \in Operands("srcAddrOrFill"), z \in {REGSIZE_BYTES, 2 * REGSIZE_BYTES, FP_REGSIZE_BYTES + REGSIZE_BYTES}}
    \cup {StoreBlkNode(TRUE, "BlkOpKindLoop", RegOperand("dstAddr"), f,
                       FP_REGSIZE_BYTES + REGSIZE_BYTES) :
            f \in {RegOperand("srcAddrOrFill"), [role |-> "src", oper |-> "GT_INIT_VAL", contained |-> TRUE,
                   op1 |-> CnsOperand("srcAddrOrFill")]}}
    \cup {StoreBlkNode(FALSE, "BlkOpKindCpObjUnroll", RegOperand("dstAddr"), f, z) :
            f \in {IndOf(RegOperand("srcAddrOrFill")), LclVarSrc},
            z \in {REGSIZE_BYTES, 2 * REGSIZE_BYTES}}
    \cup {StoreBlkNode(FALSE, "BlkOpKindUnroll", d, LclVarSrc, 2 * REGSIZE_BYTES) :
            d \in BlkAddrs("dstAddr")}
    \cup {StoreBlkNode(FALSE, "BlkOpKindUnroll", RegOperand("dstAddr"), LclVarSrc, z) :
            z \in {REGSIZE_BYTES, FP_REGSIZE_BYTES + REGSIZE_BYTES}}
    \cup {StoreBlkNode(FALSE, "BlkOpKindUnroll", RegOperand("dstAddr"), IndOf(a),
                       2 * REGSIZE_BYTES) :
            a \in BlkAddrs("srcAddrOrFill")}

\* lines 914-922, 957-961
SrcAddrOrFill(t) ==
    IF t.OperIsInitBlkOp
    THEN IF t.src.oper = "GT_INIT_VAL" THEN t.src.op1 ELSE t.src
    ELSE IF t.src.oper = "GT_IND" THEN t.src.addr ELSE NoNode

\* lines 924-953
BlkInitInternalRegs(t, c) ==
    IF t.gtBlkOpKind = "BlkOpKindUnroll"
    THEN LET c1 == IF t.dstAddr.contained
                   THEN buildInternalIntRegisterDefForNode(c, RBM_NONE)
                   ELSE c
             isDstRegAddrAlignmentKnown == t.dstAddr.oper = "GT_LCL_ADDR"
         IN IF isDstRegAddrAlignmentKnown /\ t.size > FP_REGSIZE_BYTES
            THEN buildInternalIntRegisterDefForNode(c1, RBM_NONE)
            ELSE c1
    ELSE buildInternalIntRegisterDefForNode(c, availableIntRegs)

\* lines 970-972
CpObjInternalIntCandidates ==
    allRegs("TYP_INT") \ (RBM_WRITE_BARRIER_DST_BYREF \cup RBM_WRITE_BARRIER_SRC_BYREF)

\* the size rule of BlkOpKindCpObjUnroll applied to BlkOpKindUnroll too
BlkCopyInternalRegs_SizeRuleForUnroll(t, c) ==
    LET cands == IF t.gtBlkOpKind = "BlkOpKindCpObjUnroll"
                 THEN CpObjInternalIntCandidates ELSE RBM_NONE
        c1 == buildInternalIntRegisterDefForNode(c, cands)
    IN IF t.size >= 2 * REGSIZE_BYTES
       THEN buildInternalIntRegisterDefForNode(c1, cands)
       ELSE c1

\* lines 963-1002
BlkCopyInternalRegs(t, c) ==
    IF t.gtBlkOpKind = "BlkOpKindCpObjUnroll"
    THEN LET c1 == buildInternalIntRegisterDefForNode(c, CpObjInternalIntCandidates)
         IN IF t.size >= 2 * REGSIZE_BYTES
            THEN buildInternalIntRegisterDefForNode(c1, CpObjInternalIntCandidates)
            ELSE c1
    ELSE buildInternalIntRegisterDefForNode(c, RBM_NONE)

\* the destination left unconstrained
DstAddrRegMask_None(t) == RBM_NONE

\* lines 910, 982-983
DstAddrRegMask(t) ==
    IF ~t.OperIsInitBlkOp /\ t.gtBlkOpKind = "BlkOpKindCpObjUnroll"
    THEN RBM_WRITE_BARRIER_DST_BYREF
    ELSE RBM_NONE

\* lines 911, 985-992
SrcRegMask(t) ==
    IF ~t.OperIsInitBlkOp /\ t.gtBlkOpKind = "BlkOpKindCpObjUnroll"
       /\ SrcAddrOrFill(t) # NoNode
    THEN RBM_WRITE_BARRIER_SRC_BYREF
    ELSE RBM_NONE

\* a register for the size of a block that is initialised
SizeRegMask_ForInit(t) == IF t.OperIsInitBlkOp THEN availableIntRegs ELSE RBM_NONE

\* line 912: no path sets sizeRegMask
SizeRegMask(t) == RBM_NONE

\* lines 1013-1021
BlkDstUses(t, c) ==
    IF ~t.dstAddr.contained
    THEN [BuildUse(c, t.dstAddr, DstAddrRegMask(t)) EXCEPT !.n = c.n + 1]
    ELSE IF t.dstAddr.oper = "GT_LEA"
    THEN LET c1 == BuildAddrUses(c, t.dstAddr, RBM_NONE)
         IN [c1 EXCEPT !.n = c.n + c1.n]
    ELSE c

\* lines 1023-1034
BlkSrcUses(t, c) ==
    LET srcAddrOrFill == SrcAddrOrFill(t)
    IN IF srcAddrOrFill # NoNode
       THEN IF ~srcAddrOrFill.contained
            THEN [BuildUse(c, srcAddrOrFill, SrcRegMask(t)) EXCEPT !.n = c.n + 1]
            ELSE IF srcAddrOrFill.oper = "GT_LEA"
            THEN LET c1 == BuildAddrUses(c, srcAddrOrFill, RBM_NONE)
                 IN [c1 EXCEPT !.n = c.n + c1.n]
            ELSE c
       ELSE c

\* getKillSetForBlockStore: the kills of the write barrier helper for a copy
\* with GC references, none for the other kinds
getKillSetForBlockStore(t) ==
    IF t.gtBlkOpKind = "BlkOpKindCpObjUnroll"
    THEN compHelperCallKillSet("CORINFO_HELP_ASSIGN_BYREF")
    ELSE RBM_NONE

BuildBlockStore(t, c) ==
    LET c1 == IF t.OperIsInitBlkOp THEN BlkInitInternalRegs(t, c) ELSE BlkCopyInternalRegs(t, c)
        c2 == IF SizeRegMask(t) # RBM_NONE
              THEN buildInternalIntRegisterDefForNode(c1, SizeRegMask(t))
              ELSE c1
        c3 == BlkSrcUses(t, BlkDstUses(t, [c2 EXCEPT !.n = 0]))
        c4 == buildInternalRegisterUses(c3)
    IN BuildKills(c4, getKillSetForBlockStore(t))

BuildNode_STORE_BLK ==
    /\ Building
    /\ \E t \in StoreBlkNodes :
          LET c == Begin(t)
          IN Return(t, SetSrcCount(BuildBlockStore(t, c)))

----------------------------------------------------------------------------

Init ==
    /\ tree = [oper |-> "NONE", isValue |-> FALSE, isUnusedValue |-> FALSE,
               isMultiReg |-> FALSE, contained |-> FALSE]
    /\ records = <<>>
    /\ internalDefs = <<>>
    /\ setInternalRegsDelayFree = FALSE
    /\ placedArgRegs = RBM_NONE
    /\ numPlacedArgLocals = 0
    /\ srcCount = 0
    /\ dstCount = 0
    /\ isLocalDefUse = FALSE
    /\ status = "init"
    /\ compInitMem \in BOOLEAN
    /\ needsGSCookie \in BOOLEAN

Next ==
    \/ BuildNode_default
    \/ BuildNode_LCL_VAR
    \/ BuildNode_STORE_LCL_VAR
    \/ BuildNode_unexpected
    \/ BuildNode_NO_OP
    \/ BuildNode_PROF_HOOK
    \/ BuildNode_CNS
    \/ BuildNode_RETURN
    \/ BuildNode_RETFILT
    \/ BuildNode_KEEPALIVE
    \/ BuildNode_JMPTABLE
    \/ BuildNode_SWITCH_TABLE
    \/ BuildNode_ADD
    \/ BuildNode_RETURNTRAP
    \/ BuildNode_MUL
    \/ BuildNode_NEG
    \/ BuildNode_NYI
    \/ BuildNode_CAST
    \/ BuildNode_CMP
    \/ BuildNode_CKFINITE
    \/ BuildNode_BOUNDS_CHECK
    \/ BuildNode_INDEX_ADDR
    \/ BuildNode_LCLHEAP
    \/ BuildNode_IND
    \/ BuildNode_STOREIND
    \/ BuildNode_PUTARG_STK
    \/ BuildNode_PUTARG_REG
    \/ BuildNode_CALL
    \/ BuildNode_STORE_BLK
    \/ BuildNode_LEA

Spec == Init /\ [][Next]_vars

----------------------------------------------------------------------------
(* Properties                                                              *)

\* the positions in records of the RefPositions of a kind
Positions(kind) == {i \in 1..Len(records) : records[i].kind = kind}

Count(kind) == Cardinality(Positions(kind))

\* every RefPosition of kind k1 is appended before every one of kind k2
Precedes(k1, k2) == \A i \in Positions(k1), j \in Positions(k2) : i < j

Kinds == [i \in 1..Len(records) |-> records[i].kind]

Returned == status = "returned"

Rank(kind) ==
    CASE kind = "idef" -> 1
      [] kind = "use" -> 2
      [] kind = "iuse" -> 3
      [] kind = "def" -> 4
      [] kind = "kill" -> 5

\* C1 as stated: the RefPositions of a node are appended in the order internal
\* defs, operand uses, internal uses, def of the result, kills.
C1_FixedOrder ==
    Returned =>
        \A i, j \in 1..Len(records) :
            i < j => Rank(records[i].kind) <= Rank(records[j].kind)

\* C1, amended: every internal def precedes every internal use, every internal
\* def and every operand use precedes the def of the result, and the kills
\* follow every use, internal def and internal use.  (Operand uses may come
\* before the internal defs: GT_LEA, GT_INDEX_ADDR; or after the internal
\* uses: the value of a GT_STOREIND; the def may come before the internal
\* uses: GT_CKFINITE.)
C1_PartialOrder ==
    Returned =>
        /\ Precedes("idef", "iuse")
        /\ Precedes("idef", "def")
        /\ Precedes("use", "def")
        /\ Precedes("idef", "kill")
        /\ Precedes("use", "kill")
        /\ Precedes("iuse", "kill")

\* a GT_LEA that built its base and index uses before its internal register
C1_Witness ==
    /\ Returned
    /\ tree.oper = "GT_LEA"
    /\ Kinds = <<"use", "use", "idef", "iuse", "def">>

\* the GT_LCL_VAR that line 82 makes contained
IsLclVarMadeContained == tree.oper = "GT_LCL_VAR" /\ tree.lclKind = "contained"

\* C2 as stated: a non-contained node with isValue and not isMultiReg gets
\* exactly one def, and dstCount is 1 when BuildNode returns.
C2_OneDefForEveryValue ==
    (Returned /\ ~tree.contained /\ ~IsLclVarMadeContained
        /\ tree.isValue /\ ~tree.isMultiReg) =>
        (Count("def") = 1 /\ dstCount = 1)

\* the GT_LCL_VAR that line 82 finds contained or a register candidate
IsContainedOrCandidateLclVar ==
    tree.oper = "GT_LCL_VAR" /\ tree.lclKind \in {"candidate", "contained"}

\* C2, amended: a node with isValue and not isMultiReg, other than a GT_LCL_VAR
\* that checkContainedOrCandidateLclVar finds contained or a register
\* candidate, gets exactly one def, and dstCount is 1 when BuildNode returns.
C2_OneDefUnlessCandidateLclVar ==
    (Returned /\ ~tree.contained /\ tree.isValue /\ ~tree.isMultiReg
        /\ ~IsContainedOrCandidateLclVar) =>
        (Count("def") = 1 /\ dstCount = 1)

\* a call with a single-register result: its def comes from the call's type
C2_Witness ==
    /\ Returned
    /\ tree.oper = "GT_CALL"
    /\ tree.isValue /\ ~tree.isMultiReg
    /\ Count("def") = 1
    /\ dstCount = 1

C4_NothingForContained ==
    /\ \A i \in 1..Len(records) : ~records[i].node.contained
    /\ ~tree.contained
    /\ (Returned /\ IsContainedOrCandidateLclVar) => (srcCount = 0 /\ records = <<>>)

\* a GT_LCLHEAP whose contained size got no use
C4_Witness ==
    /\ Returned
    /\ tree.oper = "GT_LCLHEAP"
    /\ tree.size.contained
    /\ Count("use") = 0
    /\ Count("def") = 1

\* the rule of an address mode with an index (or none), an offset and n
\* internal registers: the offset fits simm12 when -2048 <= cns <= 2047
AddrModeRule(hasIndex, cns, n) ==
    /\ (hasIndex /\ cns # 0) => n = 1
    /\ (~hasIndex /\ (cns < -2048 \/ cns > 2047)) => n = 1
    /\ (~hasIndex /\ -2048 <= cns /\ cns <= 2047) => n = 0

\* C5: a GT_LEA, and an indirection whose address is a contained GT_LEA,
\* requests 1 internal register with an index and a nonzero offset, 1 with no
\* index and an offset outside simm12, 0 with no index and an offset inside.
C5_LeaScratchCount ==
    /\ (Returned /\ tree.oper = "GT_LEA") =>
           AddrModeRule(tree.hasIndex, tree.cns, Count("idef"))
    /\ (Returned /\ tree.oper \in {"GT_IND", "GT_NULLCHECK", "GT_STOREIND"}
          /\ ~(tree.oper = "GT_STOREIND" /\ tree.isWriteBarrier)
          /\ tree.addr.oper = "GT_LEA" /\ tree.addr.contained) =>
           AddrModeRule(tree.addr.hasIndex, tree.addr.cns, Count("idef"))

\* an index and an offset outside simm12: one internal register, not two
C5_Witness ==
    /\ Returned
    /\ tree.oper = "GT_LEA"
    /\ tree.hasIndex
    /\ tree.cns = 2048
    /\ Count("idef") = 1

\* the table of spec section 4.6
LclHeapTable(isConst, size, init, page) ==
    LET C == ((size + 15) \div 16) * 16
    IN IF isConst
       THEN IF size = 0 THEN 0
            ELSE IF C <= 64 THEN 0
            ELSE IF init THEN 0
            ELSE IF C < page THEN 0 ELSE 2
       ELSE IF init THEN 0 ELSE 2

\* C6: a GT_LCLHEAP requests the internal registers of the table.
C6_LclHeapScratchCount ==
    (Returned /\ tree.oper = "GT_LCLHEAP") =>
        /\ Count("idef") = LclHeapTable(tree.IsCnsIntOrI, tree.gtIconVal,
                                        compInitMem, tree.eeGetPageSize)
        /\ Count("idef") # 1

\* a constant that aligns up to exactly one page, no init: two registers
C6_Witness ==
    /\ Returned
    /\ tree.oper = "GT_LCLHEAP"
    /\ tree.IsCnsIntOrI
    /\ tree.gtIconVal = 4081
    /\ tree.eeGetPageSize = 4096
    /\ ~compInitMem
    /\ Count("idef") = 2

\* the position of the i-th def among the RefPositions of the node
DefPosition(i) ==
    CHOOSE p \in Positions("def") :
        Cardinality({q \in Positions("def") : q <= p}) = i

\* the registers killed by the node
KilledRegs == UNION {records[i].mask : i \in Positions("kill")}

UseMasks(role) ==
    {records[i].mask : i \in {p \in Positions("use") : records[p].node.role = role}}

\* C8: the use of the target of a fast tail call has candidates that are
\* call-clobbered integer registers, not none, no callee-saved register, and
\* neither GS cookie temporary when the cookie check is on.
C8_FastTailCallTarget ==
    (Returned /\ tree.oper = "GT_CALL" /\ tree.IsFastTailCall
        /\ (tree.gtControlExpr \/ tree.gtCallType = "CT_INDIRECT")) =>
        /\ Cardinality(UseMasks("ctrlExpr")) = 1
        /\ \A m \in UseMasks("ctrlExpr") :
              /\ m # {}
              /\ m \subseteq RBM_INT_CALLEE_TRASH
              /\ m \cap RBM_INT_CALLEE_SAVED = {}
              /\ needsGSCookie =>
                     (REG_GSCOOKIE_TMP_0 \notin m /\ REG_GSCOOKIE_TMP_1 \notin m)

\* an indirect fast tail call under a GS cookie check
C8_Witness ==
    /\ Returned
    /\ tree.oper = "GT_CALL"
    /\ tree.IsFastTailCall
    /\ tree.gtCallType = "CT_INDIRECT"
    /\ needsGSCookie
    /\ UseMasks("ctrlExpr") # {}

NotImplementedOpers ==
    {"GT_CMPXCHG", "GT_LOCKADD", "GT_XORR", "GT_XAND", "GT_XADD", "GT_XCHG",
     "GT_HWINTRINSIC"}

\* C10: BuildNode ends in NYI for the atomics and GT_HWINTRINSIC, with nothing
\* appended, and for no other node.
C10_NotImplemented ==
    status # "init" =>
        /\ tree.oper \in NotImplementedOpers => (status = "NYI" /\ records = <<>>)
        /\ status = "NYI" => tree.oper \in NotImplementedOpers

\* the pass ended by a GT_XCHG
C10_Witness ==
    /\ status = "NYI"
    /\ tree.oper = "GT_XCHG"
    /\ records = <<>>

\* the candidates of the RefPositions of a kind, in the order they were appended
MasksOf(kind) ==
    LET sel == SelectSeq(records, LAMBDA r : r.kind = kind)
    IN [i \in 1..Len(sel) |-> sel[i].mask]

\* C11: when BuildNode returns, every internal register requested for the node
\* has its internal use, in the order of the requests.
C11_InternalRegsUsed ==
    Returned => MasksOf("iuse") = MasksOf("idef")

\* C12: under a GS cookie check, the register built for the target of a fast
\* tail call, the use of the control expression or the internal register that
\* receives the address of an R2R or virtual stub indirection, has candidates
\* that are call-clobbered integer registers and neither cookie temporary.
C12_CookieTmpsExcluded ==
    (Returned /\ tree.oper = "GT_CALL" /\ tree.IsFastTailCall /\ needsGSCookie) =>
        \A m \in UseMasks("ctrlExpr") \cup {records[i].mask : i \in Positions("idef")} :
            /\ m \subseteq RBM_INT_CALLEE_TRASH
            /\ REG_GSCOOKIE_TMP_0 \notin m
            /\ REG_GSCOOKIE_TMP_1 \notin m

\* the internal registers of a copy by the size rule: one, and a second one
\* from two register widths on
SizeRuleCount(size) == IF size >= 2 * REGSIZE_BYTES THEN 2 ELSE 1

\* the internal registers of a BlkOpKindCpObjUnroll copy: one or two by the
\* size rule, none of them a write barrier register
CpObjScratchRule ==
    (Returned /\ tree.oper = "GT_STORE_BLK"
        /\ tree.gtBlkOpKind = "BlkOpKindCpObjUnroll") =>
        /\ Count("idef") = SizeRuleCount(tree.size)
        /\ \A i \in Positions("idef") :
              records[i].mask \cap
                  (RBM_WRITE_BARRIER_DST_BYREF \cup RBM_WRITE_BARRIER_SRC_BYREF) = {}

\* C13 as stated: a copy with BlkOpKindUnroll reserves one internal register
\* and a second one from two register widths on; a BlkOpKindCpObjUnroll copy
\* follows the same size rule, without the write barrier registers.
C13_CopyScratchBySize ==
    /\ (Returned /\ tree.oper = "GT_STORE_BLK" /\ ~tree.OperIsInitBlkOp
           /\ tree.gtBlkOpKind = "BlkOpKindUnroll") =>
           Count("idef") = SizeRuleCount(tree.size)
    /\ CpObjScratchRule

\* C13, amended: a copy with BlkOpKindUnroll reserves exactly one internal
\* register whatever its size; a BlkOpKindCpObjUnroll copy reserves one, and a
\* second one from two register widths on, without the write barrier registers.
C13_CopyScratchOneForUnroll ==
    /\ (Returned /\ tree.oper = "GT_STORE_BLK" /\ ~tree.OperIsInitBlkOp
           /\ tree.gtBlkOpKind = "BlkOpKindUnroll") =>
           Count("idef") = 1
    /\ CpObjScratchRule

\* an unrolled copy of three register widths with its one internal register
C13_Witness ==
    /\ Returned
    /\ tree.oper = "GT_STORE_BLK"
    /\ ~tree.OperIsInitBlkOp
    /\ tree.gtBlkOpKind = "BlkOpKindUnroll"
    /\ tree.size = FP_REGSIZE_BYTES + REGSIZE_BYTES
    /\ Count("idef") = 1

\* C14: when BuildNode returns from a call, no argument register is recorded
\* as placed: placedArgRegs is RBM_NONE and numPlacedArgLocals is 0, which is
\* what the next node is built with.
C14_PlacedArgsReset ==
    (Returned /\ tree.oper = "GT_CALL") =>
        (placedArgRegs = RBM_NONE /\ numPlacedArgLocals = 0)

\* a fast tail call with a multi-register return, built with nothing placed
C14_Witness ==
    /\ Returned
    /\ tree.oper = "GT_CALL"
    /\ tree.IsFastTailCall
    /\ tree.isMultiReg
    /\ placedArgRegs = RBM_NONE
    /\ numPlacedArgLocals = 0

BinaryOpers ==
    {"GT_ADD", "GT_SUB", "GT_AND", "GT_AND_NOT", "GT_OR", "GT_XOR", "GT_LSH",
     "GT_RSH", "GT_RSZ", "GT_ROR", "GT_MUL", "GT_MOD", "GT_UMOD", "GT_DIV",
     "GT_MULHI", "GT_UDIV"}

\* C15: a GT_ADD, GT_SUB or GT_MUL with overflow checking requests one internal
\* register and marks the internal registers delay-free; without overflow
\* checking, and for the other binary operators, no internal register is
\* requested and the marker is not set.  Either way the node has one use for
\* each operand that is not contained, and one def.
C15_OverflowScratch ==
    (Returned /\ tree.oper \in BinaryOpers) =>
        LET checked == tree.oper \in {"GT_ADD", "GT_SUB", "GT_MUL"} /\ tree.gtOverflow
        IN /\ Count("idef") = IF checked THEN 1 ELSE 0
           /\ Count("iuse") = Count("idef")
           /\ setInternalRegsDelayFree = checked
           /\ \A i \in Positions("iuse") : records[i].delayRegFree
           /\ Count("use") = Cardinality({o \in {tree.op1, tree.op2} : ~o.contained})
           /\ \A i \in Positions("use") : ~records[i].node.contained
           /\ Count("def") = 1

\* a GT_MUL with overflow checking and a contained second operand
C15_Witness ==
    /\ Returned
    /\ tree.oper = "GT_MUL"
    /\ tree.gtOverflow
    /\ tree.op2.contained
    /\ Count("idef") = 1
    /\ setInternalRegsDelayFree

\* the operands of an address expression that are not contained
AddrLeaves(addr) ==
    IF ~addr.contained
    THEN {"addr"}
    ELSE IF addr.oper = "GT_LEA"
    THEN {r \in {"base", "index"} :
            \/ r = "base" /\ addr.hasBase /\ ~addr.baseContained
            \/ r = "index" /\ addr.hasIndex}
    ELSE {}

\* the roles of the operand uses, in the order they were appended
UseRoles ==
    LET sel == SelectSeq(records, LAMBDA r : r.kind = "use")
    IN [i \in 1..Len(sel) |-> sel[i].node.role]

\* C16: a GT_PUTARG_STK of a field list has one use for each field, srcCount
\* the number of fields and no internal register; of a struct moved as a unit,
\* two internal registers, and no use and srcCount 0 when the address of the
\* GT_BLK is a contained GT_LCL_ADDR (or the struct is a local), else the uses
\* of the address of the GT_BLK; of another value, the use of the value and no
\* internal register.
C16_PutArgStk ==
    (Returned /\ tree.oper = "GT_PUTARG_STK") =>
        LET child == tree.op1
        IN /\ child.oper = "GT_FIELD_LIST" =>
                 /\ UseRoles = [i \in 1..child.fields |-> "field"]
                 /\ srcCount = child.fields
                 /\ Count("idef") = 0
           /\ (child.isStruct /\ child.oper # "GT_FIELD_LIST") =>
                 /\ Count("idef") = 2
                 /\ Count("iuse") = 2
                 /\ IF child.oper = "GT_BLK" /\ child.addr.oper # "GT_LCL_ADDR"
                    THEN /\ {UseRoles[i] : i \in DOMAIN UseRoles} = AddrLeaves(child.addr)
                         /\ Len(UseRoles) = Cardinality(AddrLeaves(child.addr))
                         /\ srcCount = Len(UseRoles)
                    ELSE UseRoles = <<>> /\ srcCount = 0
           /\ ~child.isStruct =>
                 /\ UseRoles = <<"op1">>
                 /\ srcCount = 1
                 /\ Count("idef") = 0

\* a GT_BLK whose address is a contained address mode with a base and an index
C16_Witness ==
    /\ Returned
    /\ tree.oper = "GT_PUTARG_STK"
    /\ tree.op1.oper = "GT_BLK"
    /\ tree.op1.addr.oper = "GT_LEA"
    /\ UseRoles = <<"base", "index">>
    /\ Count("idef") = 2

\* the nodes that set setInternalRegsDelayFree: lines 97, 245, 278
SetsDelayFree ==
    \/ tree.oper \in {"GT_LCL_VAR", "GT_LCL_FLD"} /\ tree.simd12
    \/ tree.oper \in {"GT_ADD", "GT_SUB", "GT_MUL"} /\ tree.gtOverflow

\* C17: the pending internal registers and the delay-free marker are those of
\* the node being built, whatever the node before left: when BuildNode
\* returns, the pending requests are the requests of this node, the internal
\* uses built are uses of these requests and of no other, and the marker is
\* set, or applied to an internal use, only if this node set it.
C17_PerNodeBuildState ==
    Returned =>
        /\ internalDefs = MasksOf("idef")
        /\ MasksOf("iuse") \in {<<>>, MasksOf("idef")}
        /\ setInternalRegsDelayFree => SetsDelayFree
        /\ \A i \in Positions("iuse") : records[i].delayRegFree => SetsDelayFree

\* a GT_CNS_DBL: one request, one internal use that is not delay-free
C17_Witness ==
    /\ Returned
    /\ tree.oper = "GT_CNS_DBL"
    /\ MasksOf("idef") = <<RBM_NONE>>
    /\ MasksOf("iuse") = <<RBM_NONE>>
    /\ internalDefs = <<RBM_NONE>>
    /\ ~setInternalRegsDelayFree
    /\ \A i \in Positions("iuse") : ~records[i].delayRegFree

\* C18: no node requests more than two internal registers.
C18_AtMostTwoInternalRegs ==
    status # "init" =>
        /\ Count("idef") <= 2
        /\ Len(internalDefs) <= 2

\* an unrolled initialisation of a local of three register widths, with its
\* contained destination: two internal registers
C18_Witness ==
    /\ Returned
    /\ tree.oper = "GT_STORE_BLK"
    /\ tree.OperIsInitBlkOp
    /\ tree.gtBlkOpKind = "BlkOpKindUnroll"
    /\ tree.dstAddr.contained
    /\ tree.size > FP_REGSIZE_BYTES
    /\ Count("idef") = 2

====
